---- MODULE Spec2Model ----
(***************************************************************************)
(* Gemini Image Fusion: the App component's session state (App.tsx), the   *)
(* encoder (utils/fileUtils.ts) and the generation client                  *)
(* (services/geminiService.ts).                                            *)
(*                                                                         *)
(* Text is modelled as a sequence of tokens (strings): a filename is a     *)
(* sequence of one-character tokens, a message is the sequence of the      *)
(* pieces its template literal concatenates.  A nullable value is a        *)
(* sequence of length 0 (null / undefined) or 1 (the value).               *)
(***************************************************************************)
EXTENDS Integers, Sequences, FiniteSets, TLC

VARIABLES
    sourceImageFiles,   \* useState<File[]>          (App.tsx:10)
    sourceImageUrls,    \* useState<string[]>        (App.tsx:11)
    prompt,             \* useState<string>          (App.tsx:12)
    generatedImageUrl,  \* useState<string | null>   (App.tsx:13)
    error,              \* useState<string | null>   (App.tsx:14)
    appState,           \* useState<AppState>        (App.tsx:15)
    objectUrls,         \* the browser's blob-URL store: one entry per createObjectURL
    runs,               \* the handleSubmit invocations, in the order they started
    afterReset,         \* history: clearState was the last user event
    probe               \* argument and result of a pure function under test

vars == <<sourceImageFiles, sourceImageUrls, prompt, generatedImageUrl, error,
          appState, objectUrls, runs, afterReset, probe>>

appVars == <<sourceImageFiles, sourceImageUrls, prompt, generatedImageUrl, error,
             appState, objectUrls, runs, afterReset>>

----------------------------------------------------------------------------
(* Bounds of the model. *)

MaxFiles == 2              \* longest source-file list
MaxRuns == 2               \* handleSubmit invocations in a session
MaxUrls == MaxFiles        \* createObjectURL calls in a session

----------------------------------------------------------------------------
(* Nullable values and JavaScript truthiness. *)

Null == <<>>
Some(x) == <<x>>
IsNull(o) == Len(o) = 0
Get(o) == o[1]

\* a || b for a: string | null and b: string (null and "" are falsy)
JsOr(a, b) == IF ~IsNull(a) /\ Get(a) # <<>> THEN Get(a) ELSE b

\* String.prototype.startsWith
StartsWith(s, prefix) ==
    Len(s) >= Len(prefix) /\ SubSeq(s, 1, Len(prefix)) = prefix

Range(s) == {s[i] : i \in 1..Len(s)}

RECURSIVE Flatten(_)
Flatten(ss) == IF Len(ss) = 0 THEN <<>> ELSE Head(ss) \o Flatten(Tail(ss))

\* Array.prototype.join on token sequences
RECURSIVE Join(_, _)
Join(ss, sep) ==
    IF Len(ss) = 0 THEN <<>>
    ELSE IF Len(ss) = 1 THEN Head(ss)
    ELSE Head(ss) \o <<sep>> \o Join(Tail(ss), sep)

\* String.prototype.split(sep) on a token sequence: the segments between the
\* occurrences of sep, always at least one segment.
RECURSIVE SplitFrom(_, _, _)
SplitFrom(s, sep, cur) ==
    IF Len(s) = 0 THEN <<cur>>
    ELSE IF Head(s) = sep THEN <<cur>> \o SplitFrom(Tail(s), sep, <<>>)
    ELSE SplitFrom(Tail(s), sep, Append(cur, Head(s)))

Split(s, sep) == SplitFrom(s, sep, <<>>)

UpperCase == <<"A","B","C","D","E","F","G","H","I","J","K","L","M",
               "N","O","P","Q","R","S","T","U","V","W","X","Y","Z">>
LowerCase == <<"a","b","c","d","e","f","g","h","i","j","k","l","m",
               "n","o","p","q","r","s","t","u","v","w","x","y","z">>

ToLowerChar(c) ==
    IF \E i \in 1..Len(UpperCase) : UpperCase[i] = c
    THEN LowerCase[CHOOSE i \in 1..Len(UpperCase) : UpperCase[i] = c]
    ELSE c

\* String.prototype.toLowerCase
ToLowerCase(s) == [i \in 1..Len(s) |-> ToLowerChar(s[i])]

----------------------------------------------------------------------------
(* utils/fileUtils.ts: getMimeType *)

\* filename.split('.').pop()?.toLowerCase()
Extension(filename) ==
    LET segs == Split(filename, ".") IN ToLowerCase(segs[Len(segs)])

getMimeType(filename) ==
    LET extension == Extension(filename) IN
    IF extension = <<"j","p","g">> \/ extension = <<"j","p","e","g">>
        THEN Some(<<"image/", "jpeg">>)
    ELSE IF extension = <<"p","n","g">> THEN Some(<<"image/", "png">>)
    ELSE IF extension = <<"w","e","b","p">> THEN Some(<<"image/", "webp">>)
    ELSE Null

----------------------------------------------------------------------------
(* The files a user can pick or drop: name, browser-supplied type, content. *)
(* The state holds references to File objects ("jpg", "gif", "raw").        *)

JpgFile == [name |-> <<"B", ".", "J", "P", "G">>, type |-> <<"image/", "pjpeg">>,
            bytes |-> <<255, 216, 255>>]
GifFile == [name |-> <<"c", ".", "g", "i", "f">>, type |-> <<"image/", "gif">>,
            bytes |-> <<71>>]
RawFile == [name |-> <<"r", "a", "w">>, type |-> <<>>, bytes |-> <<1>>]

AllFiles == {"jpg", "gif", "raw"}

\* the File object behind a reference
File(ref) ==
    CASE ref = "jpg" -> JpgFile
      [] ref = "gif" -> GifFile
      [] OTHER -> RawFile

\* the FileList values of a change or drop event: up to two files at once
FileLists == UNION {[1..n -> AllFiles] : n \in {0, 1, 2}}

Prompts == {"", "beach"}

----------------------------------------------------------------------------
(* JavaScript values that can be thrown or rejected with. *)

Error(message) ==
    [isError |-> TRUE, message |-> message, type |-> "object", val |-> ""]
Thrown(type, val) ==
    [isError |-> FALSE, message |-> <<>>, type |-> type, val |-> val]

\* String(v) for a value that is not an Error
String(v) ==
    CASE v.type = "string" -> <<v.val>>
      [] v.type = "number" -> <<v.val>>
      [] v.type = "undefined" -> <<"undefined">>
      [] v.type = "event" -> <<"[object ", v.val, "]">>
      [] OTHER -> <<"[object Object]">>

----------------------------------------------------------------------------
(* utils/fileUtils.ts: fileToBase64, over FileReader.readAsDataURL *)

Base64Alphabet ==
    <<"A","B","C","D","E","F","G","H","I","J","K","L","M","N","O","P",
      "Q","R","S","T","U","V","W","X","Y","Z","a","b","c","d","e","f",
      "g","h","i","j","k","l","m","n","o","p","q","r","s","t","u","v",
      "w","x","y","z","0","1","2","3","4","5","6","7","8","9","+","/">>

Sextet(n) == Base64Alphabet[n + 1]

\* RFC 4648 base64 of a byte sequence, as a sequence of characters
RECURSIVE Base64(_)
Base64(b) ==
    IF Len(b) = 0 THEN <<>>
    ELSE IF Len(b) = 1 THEN
        <<Sextet(b[1] \div 4), Sextet((b[1] % 4) * 16), "=", "=">>
    ELSE IF Len(b) = 2 THEN
        <<Sextet(b[1] \div 4), Sextet((b[1] % 4) * 16 + b[2] \div 16),
          Sextet((b[2] % 16) * 4), "=">>
    ELSE
        <<Sextet(b[1] \div 4), Sextet((b[1] % 4) * 16 + b[2] \div 16),
          Sextet((b[2] % 16) * 4 + b[3] \div 64), Sextet(b[3] % 64)>>
        \o Base64(SubSeq(b, 4, Len(b)))

\* reader.result after readAsDataURL(file) has loaded a file with content:
\* "data:<type>;base64,<payload>", the type of a file without one being
\* application/octet-stream
ReadAsDataURL(file) ==
    <<"data:">>
    \o (IF file.type = <<>> THEN <<"application/octet-stream">> ELSE file.type)
    \o <<";base64", ",">> \o Base64(file.bytes)

\* reader.result for every way the read can load: for a file of zero bytes
\* the result is, by browser, the full data URL with an empty payload or the
\* bare string "data:"
ReaderResults(file) ==
    {ReadAsDataURL(file)} \cup (IF file.bytes = <<>> THEN {<<"data:">>} ELSE {})

\* reader.onload: resolve(reader.result.split(',')[1]); index 1 of a shorter
\* array is undefined
OnLoadResolve(result) ==
    LET segs == Split(result, ",") IN
    IF Len(segs) >= 2 THEN Some(segs[2]) ELSE Null

fileToBase64(file) == OnLoadResolve(ReadAsDataURL(file))

\* reader.onerror: reject(error), the error being the reader's ProgressEvent
OnErrorReject == Thrown("event", "ProgressEvent")

----------------------------------------------------------------------------
(* services/geminiService.ts: editImageWithGemini *)

Part(inlineData, text) == [inlineData |-> inlineData, text |-> text]
InlinePart(data, mimeType) ==
    Part(Some([data |-> data, mimeType |-> mimeType]), Null)
TextPart(text) == Part(Null, Some(text))

Directive == "You are an expert photo editor. [...] Here is the user's request for the scene: '"

fullPrompt(userPrompt) == <<Directive, userPrompt, "'">>

imageParts(images) ==
    [i \in 1..Len(images) |-> InlinePart(images[i].data, images[i].mimeType)]

\* contents.parts without ...imageParts
RequestPartsTextOnly(userPrompt, images) == <<TextPart(fullPrompt(userPrompt))>>

\* contents.parts of the generateContent call
RequestParts(userPrompt, images) ==
    imageParts(images) \o <<TextPart(fullPrompt(userPrompt))>>

\* the last part with inline data instead of the first
RECURSIVE FindLast(_)
FindLast(parts) ==
    IF Len(parts) = 0 THEN Null
    ELSE IF ~IsNull(parts[Len(parts)].inlineData) THEN Some(parts[Len(parts)])
    ELSE FindLast(SubSeq(parts, 1, Len(parts) - 1))

\* parts?.find(part => part.inlineData)
RECURSIVE Find(_)
Find(parts) ==
    IF Len(parts) = 0 THEN Null
    ELSE IF ~IsNull(Head(parts).inlineData) THEN Some(Head(parts))
    ELSE Find(Tail(parts))

\* response.candidates?.[0]
FirstCandidate(response) ==
    IF IsNull(response.candidates) \/ Len(Get(response.candidates)) = 0
    THEN Null
    ELSE Some(Get(response.candidates)[1])

\* response.candidates?.[0]?.content?.parts?.find(part => part.inlineData)
imagePart(response) ==
    LET c == FirstCandidate(response) IN
    IF IsNull(c) \/ IsNull(Get(c).parts) THEN Null ELSE Find(Get(Get(c).parts))

\* response.candidates?.[0]?.safetyRatings
safetyFeedback(response) ==
    LET c == FirstCandidate(response) IN
    IF IsNull(c) THEN Null ELSE Get(c).safetyRatings

Rating(r) == <<r.category, " (", r.probability, ")">>

\* the message with the ratings joined by '' instead of ', '
NoImageMessageUnseparated(response) ==
    LET fb == safetyFeedback(response) IN
    <<"No image was generated", ".">> \o
    (IF ~IsNull(fb)
     THEN <<" The model's response may have been blocked due to: ">> \o
          Flatten([i \in 1..Len(Get(fb)) |-> Rating(Get(fb)[i])])
     ELSE <<>>)

NoImageMessage(response) ==
    LET fb == safetyFeedback(response) IN
    <<"No image was generated", ".">> \o
    (IF ~IsNull(fb)
     THEN <<" The model's response may have been blocked due to: ">> \o
          Join([i \in 1..Len(Get(fb)) |-> Rating(Get(fb)[i])], ", ")
     ELSE <<>>)

\* a catch block that rethrows what it caught
Rethrow(thrown) == thrown

\* the catch block: every thrown value is wrapped in a new Error
Wrap(thrown) ==
    Error(<<"Failed to generate image: ">> \o
          (IF thrown.isError THEN thrown.message ELSE String(thrown)))

\* a settled promise: fulfilled with value, or rejected with reason
Resolve(value) == [ok |-> TRUE, value |-> value, reason |-> Thrown("undefined", "")]
Reject(reason) == [ok |-> FALSE, value |-> Null, reason |-> reason]

\* What the promise of editImageWithGemini settles with, given how the
\* generateContent call settled.
Settle(remote) ==
    IF remote.threw THEN Reject(Wrap(remote.thrown))
    ELSE LET ip == imagePart(remote.response) IN
         IF ~IsNull(ip)
         THEN Resolve(Get(Get(ip).inlineData).data)
         ELSE Reject(Wrap(Error(NoImageMessage(remote.response))))

----------------------------------------------------------------------------
(* App.tsx: handleSubmit's encoding step *)

\* the mapper with the fallback reversed: file.type || getMimeType(file.name)
MapperTypeFirst(file, base64Data) ==
    LET byName == getMimeType(file.name)
        mimeType == IF file.type # <<>> THEN file.type
                    ELSE IF IsNull(byName) THEN <<>> ELSE Get(byName)
    IN
    IF mimeType = <<>>
    THEN Reject(Error(<<"Could not determine image MIME type for ">>
                      \o file.name \o <<".">>))
    ELSE Resolve([data |-> base64Data, mimeType |-> mimeType])

\* the async mapper of sourceImageFiles.map, once fileToBase64 has resolved
Mapper(file, base64Data) ==
    LET mimeType == JsOr(getMimeType(file.name), file.type) IN
    IF mimeType = <<>>
    THEN Reject(Error(<<"Could not determine image MIME type for ">>
                      \o file.name \o <<".">>))
    ELSE Resolve([data |-> base64Data, mimeType |-> mimeType])

\* what the mapper's promise settles with when the file's read has loaded
Mapped == [ref \in AllFiles |-> Mapper(File(ref), fileToBase64(File(ref)))]

\* the fulfilment values in the order the promises were fulfilled
PromiseAllInCompletionOrder(settled) ==
    [k \in 1..Len(settled) |-> settled[k].value]

\* Promise.all: the fulfilment values, by the position of their promise.
\* settled lists [index, value] in the order the promises were fulfilled.
PromiseAll(settled) ==
    [i \in 1..Len(settled) |->
        (CHOOSE e \in Range(settled) : e.index = i).value]

\* `${resultBase64}`
Template(v) == IF IsNull(v) THEN <<"undefined">> ELSE Get(v)

resultImageUrl(resultBase64) == <<"data:image/png;base64,">> \o Template(resultBase64)

\* err instanceof Error ? err.message : 'An unknown error occurred.'
CatchMessage(err) ==
    IF err.isError THEN err.message ELSE <<"An unknown error occurred.">>

----------------------------------------------------------------------------
(* What the remote model can answer. *)

Candidate(parts, safetyRatings) == [parts |-> parts, safetyRatings |-> safetyRatings]
Response(candidates) == [candidates |-> candidates]
SafetyRating(category, probability) == [category |-> category, probability |-> probability]

ImgA == InlinePart(Some(<<"i", "V", "B", "O">>), <<"image/", "png">>)
ImgB == InlinePart(Some(<<"/", "9", "j", "/">>), <<"image/", "jpeg">>)
Txt == TextPart(<<"Here is your image.">>)
Violence == SafetyRating("VIOLENCE", "LOW")
Hate == SafetyRating("HATE", "HIGH")

\* how the generateContent promise can settle
Fulfilled(response) ==
    [threw |-> FALSE, response |-> response, thrown |-> Thrown("undefined", "")]
Rejected(thrown) ==
    [threw |-> TRUE, response |-> Response(Null), thrown |-> thrown]

\* the answers a submission of the session can get
RemoteOutcomes ==
    { Fulfilled(Response(Some(<<Candidate(Some(<<Txt, ImgB, ImgA>>), Some(<<Violence>>))>>))),
      Fulfilled(Response(Some(<<Candidate(Some(<<Txt>>), Some(<<Violence, Hate>>))>>))),
      Rejected(Error(<<"timeout">>)) }

----------------------------------------------------------------------------
(* App.tsx: the component's state and handlers *)

Init ==
    /\ sourceImageFiles = <<>>
    /\ sourceImageUrls = <<>>
    /\ prompt = ""
    /\ generatedImageUrl = Null
    /\ error = Null
    /\ appState = "initial"
    /\ objectUrls = <<>>
    /\ runs = <<>>
    /\ afterReset = FALSE
    /\ probe = <<>>

\* URL.createObjectURL: a fresh URL, registered for the file
CreateObjectURLs(store, files) ==
    store \o [i \in 1..Len(files) |-> [file |-> Some(files[i]), revoked |-> 0]]

\* URL.revokeObjectURL: the URL no longer resolves to the file
RevokeObjectURL(store, url) ==
    [store EXCEPT ![url].file = Null, ![url].revoked = @ + 1]

IsImage(ref) == StartsWith(File(ref).type, <<"image/">>)

\* Array.prototype.filter((_, index) => index !== indexToRemove)
RemoveAt(s, indexToRemove) ==
    [i \in 1..(Len(s) - 1) |-> IF i < indexToRemove THEN s[i] ELSE s[i + 1]]

\* prev => [...prev, ...added]
Spread(prev, added) == prev \o added

\* handleFiles(files), from the file input's change event or a drop
handleFiles(files) ==
    LET newImageFiles ==
            IF IsNull(files) THEN <<>> ELSE SelectSeq(Get(files), IsImage)
        firstUrl == Len(objectUrls) + 1
        newImageUrls == [i \in 1..Len(newImageFiles) |-> firstUrl + i - 1]
    IN
    /\ Len(sourceImageFiles) + Len(newImageFiles) <= MaxFiles
    /\ Len(objectUrls) + Len(newImageFiles) <= MaxUrls
    /\ IF Len(newImageFiles) = 0
       THEN UNCHANGED <<sourceImageFiles, sourceImageUrls, generatedImageUrl,
                        error, appState, objectUrls>>
       ELSE /\ objectUrls' = CreateObjectURLs(objectUrls, newImageFiles)
            /\ sourceImageFiles' = Spread(sourceImageFiles, newImageFiles)
            /\ sourceImageUrls' = Spread(sourceImageUrls, newImageUrls)
            /\ generatedImageUrl' = Null
            /\ error' = Null
            /\ appState' = "image_selected"
    /\ UNCHANGED <<prompt, runs, probe>>
    /\ afterReset' = FALSE

\* setAppState('initial') without the check of newFiles.length
AfterRemoveAlwaysInitial(newFiles, state) == "initial"

\* if (newFiles.length === 0) setAppState('initial')
AfterRemove(newFiles, state) == IF Len(newFiles) = 0 THEN "initial" ELSE state

\* handleRemoveImage without its setSourceImageUrls(newUrls)
handleRemoveImageKeepingUrls(indexToRemove) ==
    LET newFiles == RemoveAt(sourceImageFiles, indexToRemove) IN
    /\ indexToRemove \in 1..Len(sourceImageUrls)
    /\ indexToRemove \in 1..Len(sourceImageFiles)
    /\ objectUrls' = RevokeObjectURL(objectUrls, sourceImageUrls[indexToRemove])
    /\ sourceImageFiles' = newFiles
    /\ appState' = AfterRemove(newFiles, appState)
    /\ UNCHANGED <<sourceImageUrls, prompt, generatedImageUrl, error, runs, probe>>
    /\ afterReset' = FALSE

\* handleRemoveImage(indexToRemove), from the remove button of a preview
handleRemoveImage(indexToRemove) ==
    LET newFiles == RemoveAt(sourceImageFiles, indexToRemove)
        newUrls == RemoveAt(sourceImageUrls, indexToRemove)
    IN
    /\ indexToRemove \in 1..Len(sourceImageUrls)
    /\ objectUrls' = RevokeObjectURL(objectUrls, sourceImageUrls[indexToRemove])
    /\ sourceImageFiles' = newFiles
    /\ sourceImageUrls' = newUrls
    /\ appState' = AfterRemove(newFiles, appState)
    /\ UNCHANGED <<prompt, generatedImageUrl, error, runs, probe>>
    /\ afterReset' = FALSE

\* the textarea's disabled attribute
PromptDisabled == appState = "loading" \/ Len(sourceImageFiles) = 0

\* the textarea's onChange: setPrompt(e.target.value)
setPrompt(value) ==
    /\ ~PromptDisabled
    /\ value # prompt
    /\ prompt' = value
    /\ UNCHANGED <<sourceImageFiles, sourceImageUrls, generatedImageUrl, error,
                   appState, objectUrls, runs, probe>>
    /\ afterReset' = FALSE

\* the Generate button's disabled attribute
GenerateDisabled ==
    appState = "loading" \/ Len(sourceImageFiles) = 0 \/ prompt = ""

\* the precondition handleSubmit checks itself
SubmitRefused == Len(sourceImageFiles) = 0 \/ prompt = ""

\* A submission whose files are being read: the closure's files and prompt,
\* the readers still running, the mapper promises fulfilled so far (in the
\* order they were fulfilled), the request once issued, and the number of
\* generateContent calls made.
NewRun ==
    [files |-> sourceImageFiles, prompt |-> prompt,
     pending |-> 1..Len(sourceImageFiles), settled |-> <<>>,
     stage |-> "encoding", request |-> Null, calls |-> 0]

\* A submission whose promise has settled.  Readers that are still running
\* then fire into promises nobody awaits, so they are dropped with it.
DoneRun(calls) ==
    [files |-> <<>>, prompt |-> "", pending |-> {}, settled |-> <<>>,
     stage |-> "done", request |-> Null, calls |-> calls]

\* handleSubmit up to its first await, from a click on the Generate button
handleSubmit ==
    /\ ~GenerateDisabled
    /\ Len(runs) < MaxRuns
    /\ IF SubmitRefused
       THEN /\ error' = Some(<<"Please select at least one image and enter a prompt.">>)
            /\ appState' = "error"
            /\ UNCHANGED <<generatedImageUrl, runs>>
       ELSE /\ appState' = "loading"
            /\ error' = Null
            /\ generatedImageUrl' = Null
            /\ runs' = Append(runs, NewRun)
    /\ UNCHANGED <<sourceImageFiles, sourceImageUrls, prompt, objectUrls, probe>>
    /\ afterReset' = FALSE

\* the catch block without its setAppState('error')
CaughtKeepingPhase(err) ==
    /\ error' = Some(CatchMessage(err))
    /\ UNCHANGED <<appState, generatedImageUrl>>

\* handleSubmit's catch block
Caught(err) ==
    /\ error' = Some(CatchMessage(err))
    /\ appState' = "error"
    /\ UNCHANGED generatedImageUrl

\* editImageWithGemini(prompt, imageDatas) up to its await
Issue(run, imageDatas) ==
    [run EXCEPT !.stage = "remote",
                !.request = Some(RequestParts(run.prompt, imageDatas)),
                !.calls = @ + 1]

\* A FileReader of submission r fires onload for file i.  The mapper resumes;
\* when it fulfils the last promise, Promise.all resolves and
\* editImageWithGemini issues the request.
readerLoad(r, i) ==
    /\ r \in 1..Len(runs)
    /\ runs[r].stage = "encoding"
    /\ i \in runs[r].pending
    /\ LET run == runs[r]
           m == Mapped[run.files[i]]
       IN
       IF ~m.ok
       THEN /\ runs' = [runs EXCEPT ![r] = DoneRun(run.calls)]
            /\ Caught(m.reason)
       ELSE LET settled == Append(run.settled, [index |-> i, value |-> m.value])
                waiting == [run EXCEPT !.pending = @ \ {i}, !.settled = settled]
            IN
            /\ runs' = [runs EXCEPT ![r] =
                           IF Len(settled) = Len(run.files)
                           THEN Issue(waiting, PromiseAll(settled))
                           ELSE waiting]
            /\ UNCHANGED <<generatedImageUrl, error, appState>>
    /\ UNCHANGED <<sourceImageFiles, sourceImageUrls, prompt, objectUrls, probe,
                   afterReset>>

\* A FileReader of submission r fires onerror for file i: fileToBase64
\* rejects, so Promise.all rejects and handleSubmit's catch block runs.
readerError(r, i) ==
    /\ r \in 1..Len(runs)
    /\ runs[r].stage = "encoding"
    /\ i \in runs[r].pending
    /\ runs' = [runs EXCEPT ![r] = DoneRun(runs[r].calls)]
    /\ Caught(OnErrorReject)
    /\ UNCHANGED <<sourceImageFiles, sourceImageUrls, prompt, objectUrls, probe,
                   afterReset>>

\* The generateContent call of submission r settles; editImageWithGemini and
\* then handleSubmit resume.
remoteSettle(r, remote) ==
    /\ r \in 1..Len(runs)
    /\ runs[r].stage = "remote"
    /\ runs' = [runs EXCEPT ![r] = DoneRun(runs[r].calls)]
    /\ LET s == Settle(remote) IN
       IF s.ok
       THEN /\ generatedImageUrl' = Some(resultImageUrl(s.value))
            /\ appState' = "result"
            /\ UNCHANGED error
       ELSE Caught(s.reason)
    /\ UNCHANGED <<sourceImageFiles, sourceImageUrls, prompt, objectUrls, probe,
                   afterReset>>

\* the error view ("Try Again") and the result view ("Start Over") hold the
\* only buttons that call clearState
ResetShown ==
    \/ appState = "error" /\ ~IsNull(error)
    \/ appState = "result" /\ ~IsNull(generatedImageUrl)

\* clearState without its forEach: no URL is revoked
RevokeNone(store, urls) == store

\* sourceImageUrls.forEach(url => URL.revokeObjectURL(url))
RECURSIVE RevokeAll(_, _)
RevokeAll(store, urls) ==
    IF Len(urls) = 0 THEN store
    ELSE RevokeAll(RevokeObjectURL(store, Head(urls)), Tail(urls))

clearState ==
    /\ ResetShown
    /\ objectUrls' = RevokeAll(objectUrls, sourceImageUrls)
    /\ sourceImageFiles' = <<>>
    /\ sourceImageUrls' = <<>>
    /\ generatedImageUrl' = Null
    /\ error' = Null
    /\ prompt' = ""
    /\ appState' = "initial"
    /\ UNCHANGED <<runs, probe>>
    /\ afterReset' = TRUE

Next ==
    \/ \E files \in {Null} \cup {Some(l) : l \in FileLists} : handleFiles(files)
    \/ \E i \in 1..MaxFiles : handleRemoveImage(i)
    \/ \E value \in Prompts : setPrompt(value)
    \/ handleSubmit
    \/ \E r \in 1..MaxRuns, i \in 1..MaxFiles : readerLoad(r, i)
    \/ \E r \in 1..MaxRuns, i \in 1..MaxFiles : readerError(r, i)
    \/ \E r \in 1..MaxRuns, remote \in RemoteOutcomes : remoteSettle(r, remote)
    \/ clearState

Spec == Init /\ [][Next]_vars

----------------------------------------------------------------------------
(* getMimeType as a function of the filename. *)

Stems == { <<>>, <<"a">>, <<"a", ".", "b">>, <<"I", "M", "G", "_", "1">>,
           <<"x", ".", "p", "n", "g">> }

Extensions ==
    { <<"p","n","g">>, <<"P","N","G">>, <<"P","n","g">>,
      <<"j","p","g">>, <<"J","P","G">>, <<"j","p","e","g">>, <<"J","p","E","g">>,
      <<"w","e","b","p">>, <<"W","E","B","P">>,
      <<"g","i","f">>, <<"t","x","t">>, <<"p","n","g","x">>, <<"j","p">>, <<>> }

\* stem.ext, and the same characters without the dot
FileNames ==
    {stem \o dot \o ext : stem \in Stems, dot \in {<<>>, <<".">>}, ext \in Extensions}

InitMime ==
    /\ sourceImageFiles = <<>>
    /\ sourceImageUrls = <<>>
    /\ prompt = ""
    /\ generatedImageUrl = Null
    /\ error = Null
    /\ appState = "initial"
    /\ objectUrls = <<>>
    /\ runs = <<>>
    /\ afterReset = FALSE
    /\ probe \in {[filename |-> f, applied |-> FALSE, result |-> Null] : f \in FileNames}

applyGetMimeType ==
    /\ ~probe.applied
    /\ probe' = [probe EXCEPT !.applied = TRUE, !.result = getMimeType(probe.filename)]
    /\ UNCHANGED appVars

SpecMime == InitMime /\ [][applyGetMimeType]_vars

\* the filename ends in ".ext", in any letter case
EndsIn(filename, ext) ==
    /\ Len(filename) > Len(ext)
    /\ filename[Len(filename) - Len(ext)] = "."
    /\ \A k \in 1..Len(ext) :
          ToLowerChar(filename[Len(filename) - Len(ext) + k]) = ext[k]

KnownEnding(filename) ==
    \/ EndsIn(filename, <<"p","n","g">>)
    \/ EndsIn(filename, <<"j","p","g">>)
    \/ EndsIn(filename, <<"j","p","e","g">>)
    \/ EndsIn(filename, <<"w","e","b","p">>)

\* C6: a filename ending in .png, .jpg, .jpeg or .webp (any case) gets
\* image/png, image/jpeg, image/jpeg, image/webp; every other filename,
\* one without any extension included, gets null.
C6_DetectMediaType ==
    probe.applied =>
        LET f == probe.filename IN
        /\ EndsIn(f, <<"p","n","g">>) => probe.result = Some(<<"image/", "png">>)
        /\ EndsIn(f, <<"j","p","g">>) => probe.result = Some(<<"image/", "jpeg">>)
        /\ EndsIn(f, <<"j","p","e","g">>) => probe.result = Some(<<"image/", "jpeg">>)
        /\ EndsIn(f, <<"w","e","b","p">>) => probe.result = Some(<<"image/", "webp">>)
        /\ ~KnownEnding(f) => probe.result = Null

----------------------------------------------------------------------------
(* editImageWithGemini as a function of how the remote call settles. *)

PartSeqs == UNION {[1..n -> {Txt, ImgA, ImgB}] : n \in {0, 1, 2}}

RatingSeqs ==
    { Null, Some(<<>>), Some(<<Violence>>), Some(<<Violence, Hate>>),
      Some(<<Hate, Violence>>) }

Candidates ==
    {Candidate(p, sr) : p \in {Null} \cup {Some(ps) : ps \in PartSeqs},
                        sr \in RatingSeqs}

AllResponses ==
    {Response(Null), Response(Some(<<>>))}
    \cup {Response(Some(<<c>>)) : c \in Candidates}
    \cup {Response(Some(<<c, Candidate(Some(<<ImgA>>), Some(<<Hate>>))>>)) :
            c \in Candidates}

Throwables ==
    { Error(<<"timeout">>), Error(<<>>), Error(<<"No image was generated", ".">>),
      Thrown("string", "boom"), Thrown("number", "503"),
      Thrown("undefined", ""), Thrown("object", "") }

AllOutcomes ==
    {Fulfilled(r) : r \in AllResponses} \cup {Rejected(t) : t \in Throwables}

InitClient ==
    /\ sourceImageFiles = <<>>
    /\ sourceImageUrls = <<>>
    /\ prompt = ""
    /\ generatedImageUrl = Null
    /\ error = Null
    /\ appState = "initial"
    /\ objectUrls = <<>>
    /\ runs = <<>>
    /\ afterReset = FALSE
    /\ probe \in {[remote |-> o, applied |-> FALSE, result |-> Resolve(Null)] :
                    o \in AllOutcomes}

applySettle ==
    /\ ~probe.applied
    /\ probe' = [probe EXCEPT !.applied = TRUE, !.result = Settle(probe.remote)]
    /\ UNCHANGED appVars

SpecClient == InitClient /\ [][applySettle]_vars

\* C8: when the remote call throws, editImageWithGemini rejects with a new
\* Error whose message is 'Failed to generate image: ' followed by the thrown
\* Error's message or the string form of the thrown value; it resolves with
\* nothing and does not pass the thrown value on.
C8_UniformWrapping ==
    (probe.applied /\ probe.remote.threw) =>
        LET t == probe.remote.thrown
            r == probe.result
        IN
        /\ ~r.ok
        /\ r.value = Null
        /\ r.reason.isError
        /\ r.reason # t
        /\ r.reason.message =
              <<"Failed to generate image: ">> \o
              (IF t.isError THEN t.message ELSE String(t))

C8_Witness ==
    /\ probe.applied
    /\ probe.remote.threw
    /\ probe.remote.thrown = Thrown("string", "boom")
    /\ probe.result.reason.message = <<"Failed to generate image: ", "boom">>

\* the parts of the first candidate (none when there is no candidate or it
\* has no parts)
FirstParts(response) ==
    IF IsNull(response.candidates) THEN <<>>
    ELSE IF Len(Get(response.candidates)) = 0 THEN <<>>
    ELSE IF IsNull(Get(response.candidates)[1].parts) THEN <<>>
    ELSE Get(Get(response.candidates)[1].parts)

HasImage(response) ==
    \E k \in 1..Len(FirstParts(response)) : ~IsNull(FirstParts(response)[k].inlineData)

\* the safety ratings of the first candidate, as a nullable sequence
FirstRatings(response) ==
    IF IsNull(response.candidates) THEN Null
    ELSE IF Len(Get(response.candidates)) = 0 THEN Null
    ELSE Get(response.candidates)[1].safetyRatings

\* msg holds sub at position at
HoldsAt(msg, sub, at) ==
    /\ at >= 1
    /\ at + Len(sub) - 1 <= Len(msg)
    /\ \A k \in 1..Len(sub) : msg[at + k - 1] = sub[k]

Contains(msg, sub) == \E at \in 1..(Len(msg) + 1) : HoldsAt(msg, sub, at)

BlockedDueTo == " The model's response may have been blocked due to: "

\* msg ends with 'cat (prob)' for every rating, in order, separated by ', ',
\* directly after the blocked-due-to sentence
EndsWithSummary(msg, ratings) ==
    LET n == Len(ratings)
        start == Len(msg) - (IF n = 0 THEN 0 ELSE 5 * n - 1) + 1
    IN
    /\ HoldsAt(msg, <<BlockedDueTo>>, start - 1)
    /\ \A k \in 1..n :
          /\ HoldsAt(msg, <<ratings[k].category, " (", ratings[k].probability, ")">>,
                     start + 5 * (k - 1))
          /\ k < n => msg[start + 5 * (k - 1) + 4] = ", "

\* C9: when the first candidate carries no inline image, editImageWithGemini
\* rejects with a message containing 'No image was generated'; the message
\* lists 'category (probability)' for every safety rating, in order and
\* separated by ', ', exactly when the response carries safety ratings, and has
\* no blocked-due-to summary when it carries none.
C9_NoImageMessage ==
    (probe.applied /\ ~probe.remote.threw /\ ~HasImage(probe.remote.response)) =>
        LET r == probe.result
            msg == r.reason.message
            fb == FirstRatings(probe.remote.response)
        IN
        /\ ~r.ok
        /\ r.reason.isError
        /\ Contains(msg, <<"No image was generated">>)
        /\ ~IsNull(fb) => EndsWithSummary(msg, Get(fb))
        /\ IsNull(fb) => /\ ~Contains(msg, <<BlockedDueTo>>)
                         /\ ~Contains(msg, <<" (">>)

C9_Witness ==
    /\ probe.applied
    /\ ~probe.remote.threw
    /\ ~HasImage(probe.remote.response)
    /\ FirstRatings(probe.remote.response) = Some(<<Violence, Hate>>)
    /\ probe.result.reason.message =
          <<"Failed to generate image: ", "No image was generated", ".", BlockedDueTo,
            "VIOLENCE", " (", "LOW", ")", ", ", "HATE", " (", "HIGH", ")">>

----------------------------------------------------------------------------
(* The session: files, previews and phase. *)

\* C1: the file list and the preview-URL list have the same length, and the
\* URL at index i is the one createObjectURL returned for the file at index i.
C1_UrlsMatchFiles ==
    /\ Len(sourceImageUrls) = Len(sourceImageFiles)
    /\ \A i \in 1..Len(sourceImageUrls) :
          /\ sourceImageUrls[i] \in 1..Len(objectUrls)
          /\ objectUrls[sourceImageUrls[i]].file = Some(sourceImageFiles[i])

\* two different files were added and the first was removed again
C1_Witness ==
    /\ sourceImageFiles = <<"gif">>
    /\ sourceImageUrls = <<2>>
    /\ objectUrls[1].revoked = 1
    /\ objectUrls[2].file = Some("gif")

ClaimedEdges ==
    { <<"initial", "image_selected">>, <<"image_selected", "loading">>,
      <<"loading", "result">>, <<"loading", "error">>,
      <<"result", "initial">>, <<"error", "initial">> }

\* C2 as stated: the phase changes only along initial -> image_selected ->
\* loading -> {result, error} and result/error -> initial.
C2_ClaimedEdgesOnly ==
    [][appState' # appState => <<appState, appState'>> \in ClaimedEdges]_vars

Phases == {"initial", "image_selected", "loading", "result", "error"}

ActualEdges ==
    {<<a, b>> : a \in Phases, b \in Phases} \
        ({<<a, a>> : a \in Phases} \cup {<<"initial", "loading">>})

\* C2 as amended: the phase can change from any phase to any other, except
\* that initial never leads to loading.
C2_PhaseEdges ==
    [][appState' # appState => <<appState, appState'>> \in ActualEdges]_vars

\* back in initial by removing the last file, with no submission made
C2_Witness ==
    /\ appState = "initial"
    /\ Len(objectUrls) > 0
    /\ runs = <<>>

----------------------------------------------------------------------------
(* The request a submission sends. *)

InFlight == {r \in 1..Len(runs) : runs[r].stage = "remote"}

\* the media type the fallback chain resolves for a file: the type of a
\* recognised extension, else the type the file object carries
ResolvedType(file) ==
    IF ~IsNull(getMimeType(file.name)) THEN Get(getMimeType(file.name))
    ELSE file.type

Encoded(file) == InlinePart(fileToBase64(file), ResolvedType(file))

EncodedFiles == [ref \in AllFiles |-> Encoded(File(ref))]

\* C3: the request holds the encoded files in the order of the file list at
\* submission, then one text part, whatever order the reads completed in.
C3_OrderPreserved ==
    \A r \in InFlight :
        LET run == runs[r]
            parts == Get(run.request)
            n == Len(run.files)
        IN
        /\ ~IsNull(run.request)
        /\ Len(parts) = n + 1
        /\ \A i \in 1..n : parts[i] = EncodedFiles[run.files[i]]
        /\ IsNull(parts[n + 1].inlineData)
        /\ ~IsNull(parts[n + 1].text)

\* a request for two different files whose second file was read first
C3_Witness ==
    \E r \in InFlight :
        /\ Len(runs[r].files) = 2
        /\ runs[r].files[1] # runs[r].files[2]
        /\ runs[r].settled[1].index = 2

Whitelist == {<<"image/", "jpeg">>, <<"image/", "png">>, <<"image/", "webp">>}

\* C4: every image part of every request has a media type of the whitelist
\* (a file whose resolved type is outside it makes the submission fail before
\* any call).
C4_WhitelistedTypes ==
    \A r \in InFlight :
        \A k \in 1..Len(Get(runs[r].request)) :
            LET part == Get(runs[r].request)[k] IN
            ~IsNull(part.inlineData) => Get(part.inlineData).mimeType \in Whitelist

BothAbsent(file) == IsNull(getMimeType(file.name)) /\ file.type = <<>>

\* C5: for each file of a submission the media type is the extension's type
\* if the extension is recognised and else the file object's type; a file with
\* neither makes the submission fail with a message naming the file, with no
\* remote call, in phase error.
C5_FallbackChain ==
    [][\A r \in 1..Len(runs) :
          \A i \in runs[r].pending :
             (runs[r].stage = "encoding" /\ runs'[r] # runs[r] /\ readerLoad(r, i)) =>
             LET file == File(runs[r].files[i]) IN
             IF BothAbsent(file)
             THEN /\ error' = Some(<<"Could not determine image MIME type for ">>
                                   \o file.name \o <<".">>)
                  /\ appState' = "error"
                  /\ runs'[r].stage = "done"
                  /\ runs'[r].calls = 0
             ELSE LET e == runs'[r].settled[Len(runs'[r].settled)] IN
                  /\ e.index = i
                  /\ e.value.mimeType = ResolvedType(file)
                  /\ e.value.mimeType # <<>>]_vars

\* a request carrying both a type taken from the extension against the file
\* object's type, and a type taken from the file object
C5_Witness ==
    \E r \in InFlight :
        /\ runs[r].files = <<"jpg", "gif">>
        /\ Get(Get(runs[r].request)[1].inlineData).mimeType = <<"image/", "jpeg">>
        /\ Get(Get(runs[r].request)[2].inlineData).mimeType = <<"image/", "gif">>

\* C7: no request reaches the remote model with zero image parts or an empty
\* user prompt.
C7_NonEmptyRequest ==
    \A r \in InFlight :
        LET parts == Get(runs[r].request) IN
        /\ \E k \in 1..Len(parts) : ~IsNull(parts[k].inlineData)
        /\ \E k \in 1..Len(parts) :
              /\ ~IsNull(parts[k].text)
              /\ Get(parts[k].text)[2] # ""
              /\ Get(parts[k].text)[2] = runs[r].prompt

\* a request is in flight while the list is empty again and the prompt cleared
C7_Witness ==
    \E r \in InFlight :
        /\ Len(sourceImageFiles) = 0
        /\ runs[r].calls = 1

\* the data of the first part of the first candidate that has inline data
FirstImageData(response) ==
    LET parts == FirstParts(response)
        k == CHOOSE k \in 1..Len(parts) :
                /\ ~IsNull(parts[k].inlineData)
                /\ \A j \in 1..(k - 1) : IsNull(parts[j].inlineData)
    IN Get(Get(parts[k].inlineData).data)

\* C10: when the first candidate has a part with inline data, the generated
\* image becomes 'data:image/png;base64,' followed by the data of the first
\* such part, unmodified, and the phase becomes result.
C10_FirstImageStored ==
    [][\A r \in 1..Len(runs), remote \in RemoteOutcomes :
          (/\ runs[r].stage = "remote"
           /\ runs'[r].stage = "done"
           /\ ~remote.threw
           /\ HasImage(remote.response)
           /\ remoteSettle(r, remote)) =>
              /\ generatedImageUrl' =
                    Some(<<"data:image/png;base64,">> \o FirstImageData(remote.response))
              /\ appState' = "result"]_vars

\* the result of a response whose first image follows a text part and
\* precedes another image
C10_Witness ==
    /\ appState = "result"
    /\ generatedImageUrl = Some(<<"data:image/png;base64,", "/", "9", "j", "/">>)
    /\ \E r \in 1..Len(runs) : runs[r].stage = "done" /\ runs[r].calls = 1

----------------------------------------------------------------------------
(* Submissions and the calls they make. *)

\* the submission started last has settled without ever calling the model:
\* it failed while its files were encoded
LastFailedEncoding == Len(runs) > 0 /\ runs[Len(runs)] = DoneRun(0)

\* some submission issues a generateContent call in this step
CallIssued == \E r \in 1..Len(runs) : runs'[r].calls > runs[r].calls

\* C11: no submission calls the remote model more than once, and once the
\* submission started last has failed in encoding no call is issued until
\* handleSubmit runs again.
C11_NeverRetries ==
    [][/\ \A r \in 1..Len(runs') : runs'[r].calls <= 1
       /\ (LastFailedEncoding /\ Len(runs') = Len(runs)) => ~CallIssued]_vars

\* the half of C11 about one submission: it calls the model at most once, at
\* the step that ends its encoding, and never after it has settled
C11_OneCallPerSubmission ==
    [][\A r \in 1..Len(runs) :
          /\ runs'[r].calls <= 1
          /\ runs'[r].calls > runs[r].calls =>
                runs[r].stage = "encoding" /\ runs'[r].stage = "remote"
          /\ runs[r].stage = "done" => runs'[r] = runs[r]]_vars

----------------------------------------------------------------------------
(* What the session shows when a submission fails. *)

\* the only text of the source that says a file could not be read
\* (fileUtils.ts, the onload branch for a result that is not a string)
ReadFailedText == "Failed to read file as a data URL."

\* the message states the failure of the given kind
Identifies(msg, kind, detail) ==
    CASE kind = "read" -> Contains(msg, <<ReadFailedText>>)
      [] kind = "mime" ->
            Contains(msg, <<"Could not determine image MIME type for ">> \o detail)
      [] kind = "remote" -> Contains(msg, detail)
      [] OTHER -> Contains(msg, <<"No image was generated">>)

\* what the session must show right after a failure of the given kind
FailureShown(kind, detail) ==
    /\ appState' = "error"
    /\ ~IsNull(error')
    /\ Get(error') # <<>>
    /\ Identifies(Get(error'), kind, detail)
    /\ ResetShown'

\* C12: every step at which a submission fails (a read that cannot complete,
\* an undeterminable media type, a thrown remote call, a response without an
\* image) leaves the phase error, a non-empty message that identifies that
\* failure, and the reset button shown.
C12_NoFailureSwallowed ==
    [][\A r \in 1..Len(runs) :
          /\ \A i \in runs[r].pending :
                /\ (runs[r].stage = "encoding" /\ runs'[r].stage = "done"
                    /\ readerError(r, i)) => FailureShown("read", <<>>)
                /\ (runs[r].stage = "encoding" /\ runs'[r].stage = "done"
                    /\ readerLoad(r, i)) =>
                       FailureShown("mime", File(runs[r].files[i]).name)
          /\ \A remote \in RemoteOutcomes :
                (runs[r].stage = "remote" /\ runs'[r].stage = "done"
                 /\ ~Settle(remote).ok /\ remoteSettle(r, remote)) =>
                    IF remote.threw
                    THEN FailureShown("remote",
                                      IF remote.thrown.isError
                                      THEN remote.thrown.message
                                      ELSE String(remote.thrown))
                    ELSE FailureShown("none", <<>>)]_vars

\* C12 for the failures of the remote step alone
C12_RemoteFailuresShown ==
    [][\A r \in 1..Len(runs), remote \in RemoteOutcomes :
          (runs[r].stage = "remote" /\ runs'[r].stage = "done"
           /\ ~Settle(remote).ok /\ remoteSettle(r, remote)) =>
              FailureShown(IF remote.threw THEN "remote" ELSE "none",
                           IF remote.threw THEN remote.thrown.message ELSE <<>>)]_vars

----------------------------------------------------------------------------
(* fileToBase64 as a function of the file and of how its read ends. *)

MaxBytes == 4              \* longest file content

ByteValues == {0, 97, 255}

Contents == UNION {[1..n -> ByteValues] : n \in 0..MaxBytes}

FileTypes == {<<"image/", "png">>, <<>>}

EncodeFiles ==
    {[name |-> <<"a", ".", "p", "n", "g">>, type |-> t, bytes |-> b] :
        t \in FileTypes, b \in Contents}

InitEncode ==
    /\ sourceImageFiles = <<>>
    /\ sourceImageUrls = <<>>
    /\ prompt = ""
    /\ generatedImageUrl = Null
    /\ error = Null
    /\ appState = "initial"
    /\ objectUrls = <<>>
    /\ runs = <<>>
    /\ afterReset = FALSE
    /\ probe \in {[file |-> f, applied |-> FALSE, loaded |-> FALSE, url |-> <<>>,
                   result |-> Resolve(Null)] : f \in EncodeFiles}

\* reader.onload fires: resolve(reader.result.split(',')[1])
applyOnLoad ==
    /\ ~probe.applied
    /\ \E url \in ReaderResults(probe.file) :
          probe' = [probe EXCEPT !.applied = TRUE, !.loaded = TRUE, !.url = url,
                                 !.result = Resolve(OnLoadResolve(url))]
    /\ UNCHANGED appVars

\* reader.onerror fires: reject(error)
applyOnError ==
    /\ ~probe.applied
    /\ probe' = [probe EXCEPT !.applied = TRUE, !.result = Reject(OnErrorReject)]
    /\ UNCHANGED appVars

SpecEncode == InitEncode /\ [][applyOnLoad \/ applyOnError]_vars

\* the number a base64 character stands for
SextetValue(c) == CHOOSE n \in 0..63 : Sextet(n) = c

\* RFC 4648 decoding of padded base64
RECURSIVE Base64Decode(_)
Base64Decode(s) ==
    IF Len(s) < 4 THEN <<>>
    ELSE LET a == SextetValue(s[1])
             b == SextetValue(s[2])
         IN
         IF s[3] = "=" THEN <<a * 4 + b \div 16>>
         ELSE IF s[4] = "="
         THEN <<a * 4 + b \div 16, (b % 16) * 16 + SextetValue(s[3]) \div 4>>
         ELSE <<a * 4 + b \div 16, (b % 16) * 16 + SextetValue(s[3]) \div 4,
                (SextetValue(s[3]) % 4) * 64 + SextetValue(s[4])>>
              \o Base64Decode(SubSeq(s, 5, Len(s)))

\* what follows the first comma of a data URL (null when it has no comma)
AfterFirstComma(url) ==
    IF "," \notin Range(url) THEN Null
    ELSE LET k == CHOOSE k \in 1..Len(url) :
                     url[k] = "," /\ \A j \in 1..(k - 1) : url[j] # ","
         IN Some(SubSeq(url, k + 1, Len(url)))

\* the resolved value is a defined string without 'data:' and without a
\* comma, the payload of the data URL, and decodes to the file's bytes
RoundTrips(p) ==
    /\ p.result.ok
    /\ ~IsNull(p.result.value)
    /\ LET v == Get(p.result.value) IN
       /\ "data:" \notin Range(v)
       /\ "," \notin Range(v)
       /\ p.result.value = AfterFirstComma(p.url)
       /\ Base64Decode(v) = p.file.bytes

\* C13: for a file of N >= 0 bytes whose read completes, fileToBase64
\* resolves with a defined string that has no 'data:' prefix and no comma, is
\* the payload after the first comma of the data URL and decodes to the N
\* bytes; when the read cannot complete it rejects.
C13_EncodeRoundTrip ==
    probe.applied => IF probe.loaded THEN RoundTrips(probe) ELSE ~probe.result.ok

\* C13 for the files that have content (N >= 1)
C13_NonEmptyRoundTrip ==
    (probe.applied /\ probe.file.bytes # <<>>) =>
        IF probe.loaded THEN RoundTrips(probe) ELSE ~probe.result.ok

----------------------------------------------------------------------------
(* Submissions whose reads and remote call complete. *)

\* a read or the remote call of submission r completes, either way
Completes(r) ==
    \/ \E i \in 1..MaxFiles : readerLoad(r, i) \/ readerError(r, i)
    \/ \E remote \in RemoteOutcomes : remoteSettle(r, remote)

\* the session under the assumption that no read and no remote call of a
\* submission stays outstanding forever
SpecLive == Spec /\ \A r \in 1..MaxRuns : WF_vars(Completes(r))

\* C14: if every read and remote call eventually completes, every loading
\* phase is eventually followed by phase result or error, whatever the user
\* does meanwhile.
C14_LoadingEnds ==
    (appState = "loading") ~> (appState \in {"result", "error"})

\* two submissions overlapped, files were added meanwhile, and both have
\* settled with an outcome shown
C14_Witness ==
    /\ Len(runs) = 2
    /\ \A r \in 1..Len(runs) : runs[r].stage = "done"
    /\ Len(sourceImageFiles) = 2
    /\ appState \in {"result", "error"}

----------------------------------------------------------------------------
(* Reset. *)

EmptySession ==
    /\ sourceImageFiles = <<>>
    /\ sourceImageUrls = <<>>
    /\ prompt = ""
    /\ generatedImageUrl = Null
    /\ error = Null
    /\ appState = "initial"

\* C15: from clearState until the next user event the file list and the
\* preview list are empty, the prompt is empty, the generated image and the
\* error are null and the phase is initial: no completion of an earlier
\* submission changes them.
C15_ResetHolds == afterReset => EmptySession

\* the first half of C15: the state clearState leaves, and the steps that
\* end it before the next user event are completions of earlier submissions
C15_ResetStep ==
    [][/\ (~afterReset /\ afterReset') => EmptySession'
       /\ (afterReset /\ afterReset' /\ EmptySession /\ ~EmptySession') =>
             \E r \in 1..Len(runs) : runs[r].stage # "done" /\ runs'[r].stage = "done"]_vars

----------------------------------------------------------------------------
(* Outstanding submissions. *)

\* the submissions whose encoding or remote call has not completed
Outstanding == {r \in 1..Len(runs) : runs[r].stage # "done"}

\* C16: at most one submission is outstanding: no handleSubmit starts before
\* the previous one's encoding and remote call have completed.
C16_OneOutstanding == Cardinality(Outstanding) <= 1

\* what the Generate button's disabled condition does achieve: no
\* handleSubmit starts in phase loading
C16_NoSubmitWhileLoading ==
    [][Len(runs') > Len(runs) => appState # "loading"]_vars

----------------------------------------------------------------------------
(* The result panel. *)

\* a string | null used as a condition: null and '' are falsy
Truthy(o) == ~IsNull(o) /\ Get(o) # <<>>

\* appState === 'loading' && ...
SpinnerView == appState = "loading"

\* appState === 'error' && error && ...
ErrorView == appState = "error" /\ Truthy(error)

\* appState === 'result' && generatedImageUrl && ...
ResultView == appState = "result" /\ Truthy(generatedImageUrl)

\* (appState === 'initial' || appState === 'image_selected') && !generatedImageUrl && ...
PlaceholderView ==
    appState \in {"initial", "image_selected"} /\ ~Truthy(generatedImageUrl)

\* the views the panel renders
ViewsShown ==
    {v \in {"spinner", "error", "result", "placeholder"} :
        CASE v = "spinner" -> SpinnerView
          [] v = "error" -> ErrorView
          [] v = "result" -> ResultView
          [] OTHER -> PlaceholderView}

\* C17: the result panel shows exactly one of its four views in every
\* reachable state: it is never blank and never shows two.
C17_OneView == Cardinality(ViewsShown) = 1

\* the half of C17 that holds: the panel never shows two views
C17_AtMostOneView == Cardinality(ViewsShown) <= 1

----------------------------------------------------------------------------
(* The outcome fields and the phase. *)

\* C18: in phase result the generated image is non-null and the error null;
\* in phase error the error is non-null and the generated image null; in phase
\* loading both are null.
C18_OutcomeAgreesWithPhase ==
    /\ appState = "result" => ~IsNull(generatedImageUrl) /\ IsNull(error)
    /\ appState = "error" => ~IsNull(error) /\ IsNull(generatedImageUrl)
    /\ appState = "loading" => IsNull(error) /\ IsNull(generatedImageUrl)

\* the part of C18 about the field a phase shows, and about loading
C18_ShownFieldSet ==
    /\ appState = "result" => ~IsNull(generatedImageUrl)
    /\ appState = "error" => ~IsNull(error)
    /\ appState = "loading" => IsNull(error) /\ IsNull(generatedImageUrl)

----------------------------------------------------------------------------
(* The preview URLs. *)

Listed(urls) == Range(urls)

\* every listed URL was created, is listed once and is not revoked; every
\* other URL created has been revoked, once
UrlsAccounted(urls, store) ==
    /\ \A i, j \in 1..Len(urls) : urls[i] = urls[j] => i = j
    /\ Listed(urls) \subseteq 1..Len(store)
    /\ \A u \in 1..Len(store) :
          IF u \in Listed(urls)
          THEN store[u].revoked = 0 /\ ~IsNull(store[u].file)
          ELSE store[u].revoked = 1 /\ IsNull(store[u].file)

\* C19: every URL of the preview list has been created and not revoked,
\* every URL that leaves the list is revoked at that step and exactly once,
\* and no URL outside the list stays unrevoked.
C19_UrlLifecycle ==
    [][/\ UrlsAccounted(sourceImageUrls', objectUrls')
       /\ \A u \in Listed(sourceImageUrls) \ Listed(sourceImageUrls') :
             objectUrls[u].revoked = 0 /\ objectUrls'[u].revoked = 1
       /\ \A u \in 1..Len(objectUrls) :
             objectUrls'[u].revoked # objectUrls[u].revoked =>
                u \in Listed(sourceImageUrls) \ Listed(sourceImageUrls')]_vars

\* after a submission and a reset: both URLs created in the session have left
\* the list (by handleRemoveImage or clearState) and each was revoked once
C19_Witness ==
    /\ afterReset
    /\ Len(objectUrls) = 2
    /\ \A u \in 1..Len(objectUrls) : objectUrls[u].revoked = 1
    /\ \E r \in 1..Len(runs) : Len(runs[r].files) = 0 /\ runs[r].calls = 1

====
